---- MODULE Spec2Model ----
(***************************************************************************)
(* GMM-UBM speaker / gender recognition (map_adaptation_vr.ipynb,          *)
(* map_adaptation_gr.ipynb, classic_gmm_vr.ipynb): MAP adaptation of a     *)
(* universal background model and the evaluation that classifies test      *)
(* samples by the highest score.                                           *)
(*                                                                         *)
(* numpy floats are modelled as exact fractions <<n, d>> with d > 0,       *)
(* extended by the IEEE special values: <<0, 0>> is NaN, <<1, 0>> is +inf  *)
(* and <<-1, 0>> is -inf.  Rounding of finite results is not modelled.     *)
(***************************************************************************)
EXTENDS Integers, Sequences, FiniteSets, TLC

\* ------------------------------------------------------------------ bounds
MaxIter == 2      \* largest max_iter passed to map_adapt
MaxT == 2         \* largest number of feature vectors (rows) of a sample X
MinExp == 3       \* exp2(-e) underflows to 0.0 for e > MinExp (1074 in binary64)
MaxModels == 2    \* largest number of candidate models
MaxTests == 2     \* largest number of entries of a test set / directory
TrainIter == 1    \* max_iter of the adaptations get_models makes (100 in the source)

\* ------------------------------------------------------------ float values
NaN == <<0, 0>>
PInf == <<1, 0>>
Zero == <<0, 1>>
One == <<1, 1>>

Abs(i) == IF i < 0 THEN -i ELSE i
Sign(i) == IF i < 0 THEN -1 ELSE IF i > 0 THEN 1 ELSE 0

RECURSIVE GCD(_, _)
GCD(a, b) == IF b = 0 THEN a ELSE GCD(b, a % b)

\* the float n/d in lowest terms; n/0 is an infinity or NaN
Norm(n, d) ==
    IF d = 0 THEN <<Sign(n), 0>>
    ELSE LET g == GCD(Abs(n), Abs(d))
             s == IF d < 0 THEN -1 ELSE 1
         IN  <<(s * n) \div g, (s * d) \div g>>

FInt(i) == <<i, 1>>
FIsNaN(a) == a[1] = 0 /\ a[2] = 0
FIsFinite(a) == a[2] > 0

FNeg(a) == <<-a[1], a[2]>>

\* finite a + b over the least common denominator
AddFinite(a, b) ==
    LET g == GCD(a[2], b[2])
    IN  Norm(a[1] * (b[2] \div g) + b[1] * (a[2] \div g), (a[2] \div g) * b[2])

\* finite (n1/d1) * (n2/d2), reduced crosswise before multiplying
MulFinite(n1, d1, n2, d2) ==
    LET g1 == GCD(Abs(n1), Abs(d2))
        g2 == GCD(Abs(n2), Abs(d1))
    IN  IF g1 = 0 \/ g2 = 0 THEN Norm(n1 * n2, d1 * d2)
        ELSE Norm((n1 \div g1) * (n2 \div g2), (d1 \div g2) * (d2 \div g1))

FAdd(a, b) ==
    IF FIsFinite(a) /\ FIsFinite(b) THEN AddFinite(a, b)
    ELSE IF FIsNaN(a) \/ FIsNaN(b) THEN NaN
    ELSE IF ~FIsFinite(a) /\ ~FIsFinite(b) THEN (IF a[1] = b[1] THEN a ELSE NaN)
    ELSE IF ~FIsFinite(a) THEN a ELSE b

FSub(a, b) == FAdd(a, FNeg(b))

FMul(a, b) ==
    IF FIsFinite(a) /\ FIsFinite(b) THEN MulFinite(a[1], a[2], b[1], b[2])
    ELSE IF FIsNaN(a) \/ FIsNaN(b) THEN NaN
    ELSE Norm(Sign(a[1]) * Sign(b[1]), 0)          \* inf * 0 = NaN

FDiv(a, b) ==
    IF FIsNaN(a) \/ FIsNaN(b) THEN NaN
    ELSE IF FIsFinite(a) /\ FIsFinite(b) THEN MulFinite(a[1], a[2], b[2], b[1])  \* x/0 = inf, 0/0 = NaN
    ELSE IF ~FIsFinite(a) /\ ~FIsFinite(b) THEN NaN
    ELSE IF ~FIsFinite(a) THEN Norm(Sign(a[1]) * (IF b[1] < 0 THEN -1 ELSE 1), 0)
    ELSE Zero

\* IEEE comparisons: every comparison with NaN is false
FLe(a, b) ==
    /\ ~FIsNaN(a) /\ ~FIsNaN(b)
    /\ IF ~FIsFinite(a) /\ ~FIsFinite(b) THEN a[1] <= b[1]
       ELSE LET g == GCD(a[2], b[2])
            IN  IF g = 0 THEN a[1] * b[2] <= b[1] * a[2]
                ELSE a[1] * (b[2] \div g) <= b[1] * (a[2] \div g)

FLt(a, b) == FLe(a, b) /\ ~FLe(b, a)

\* floor of a finite float
Floor(a) == a[1] \div a[2]

RECURSIVE Log2Floor(_, _)
\* floor(log2(n/d)) for n, d > 0
Log2Floor(n, d) ==
    IF n >= 2 * d THEN 1 + Log2Floor(n, 2 * d)
    ELSE IF n < d THEN Log2Floor(2 * n, d) - 1
    ELSE 0

RECURSIVE Pow2(_)
Pow2(e) == IF e <= 0 THEN 1 ELSE 2 * Pow2(e - 1)

RECURSIVE Tab(_, _)
\* the function f on 1..n as an evaluated sequence
Tab(f, n) == IF n = 0 THEN <<>> ELSE Append(Tab(f, n - 1), f[n])

RECURSIVE FSum(_, _)
\* left-to-right sum of f[1..n]
FSum(f, n) == IF n = 0 THEN Zero ELSE FAdd(FSum(f, n - 1), f[n])

\* --------------------------------------------- sklearn GaussianMixture (diag)
\* A model's parameters are a record [weights_, means_, covariances_]:
\* weights_ is a sequence of K floats, means_ and covariances_ are K x F.
NComp(p) == Len(p.weights_)
NFeat(p) == Len(p.means_[1])

RECURSIVE ISum(_, _)
ISum(f, n) == IF n = 0 THEN 0 ELSE ISum(f, n - 1) + f[n]

IMax(S) == CHOOSE m \in S : \A i \in S : i <= m

HasBadMean(p) ==
    \E k \in 1..NComp(p) : \E f \in 1..Len(p.means_[k]) : ~FIsFinite(p.means_[k][f])

\* sum over the features of (x_f - mu_kf)^2 / (2 var_kf)
ExpArg(p, x, k) ==
    FSum([f \in 1..Len(x) |->
            LET d == FSub(FInt(x[f]), p.means_[k][f])
            IN  FDiv(FMul(d, d), FMul(FInt(2), p.covariances_[k][f]))], Len(x))

\* log weight + log density of x under component k, in base 2 and rounded
\* down to an integer (the constant -F/2 log(2 pi) is common to all
\* components and all models and is left out)
weighted_log_prob(p, x, k) ==
    Log2Floor(p.weights_[k][1], p.weights_[k][2])
    - (ISum([f \in 1..Len(x) |->
               Log2Floor(p.covariances_[k][f][1], p.covariances_[k][f][2])], Len(x)) \div 2)
    - Floor(ExpArg(p, x, k))

\* exp2(e - emax) scaled by 2^MinExp; it underflows to 0 below 2^-MinExp
ExpScaled(e, emax) == IF emax - e > MinExp THEN 0 ELSE Pow2(MinExp - (emax - e))

\* responsibilities of one sample: exp(weighted_log_prob - logsumexp)
RespRow(p, x) ==
    LET K == NComp(p)
    IN  IF HasBadMean(p) THEN Tab([k \in 1..K |-> NaN], K)
        ELSE LET e == Tab([k \in 1..K |-> weighted_log_prob(p, x, k)], K)
                 emax == IMax({e[k] : k \in 1..K})
                 tot == ISum([k \in 1..K |-> ExpScaled(e[k], emax)], K)
             IN  Tab([k \in 1..K |-> Norm(ExpScaled(e[k], emax), tot)], K)

\* GaussianMixture.predict_proba: a T x K matrix
predict_proba(p, X) == Tab([t \in 1..Len(X) |-> RespRow(p, X[t])], Len(X))

\* ------------------------------------------------------- map_adapt, one pass
\* n = np.sum(gmm.predict_proba(X), axis=0)
SoftCounts(p, X) ==
    LET resp == predict_proba(p, X)
    IN  Tab([k \in 1..NComp(p) |->
               FSum([t \in 1..Len(X) |-> resp[t][k]], Len(X))], NComp(p))

\* X_tilde = (1 / n) * gmm.predict_proba(X).T.dot(X), for the n of line 110
XTildeOf(n, p, X) ==
    LET resp == predict_proba(p, X)
    IN  Tab([k \in 1..NComp(p) |-> Tab([f \in 1..NFeat(p) |->
           FMul(FDiv(One, n[k]),
                FSum([t \in 1..Len(X) |-> FMul(resp[t][k], FInt(X[t][f]))], Len(X)))],
           NFeat(p))], NComp(p))

\* lines 110 and 111 of one pass
XTilde(p, X) == XTildeOf(SoftCounts(p, X), p, X)

Alpha_count_over_r(p, X, r) ==
    LET n == SoftCounts(p, X)
    IN  Tab([k \in 1..NComp(p) |-> FDiv(n[k], r)], NComp(p))

\* alpha = (n / (n + r)).reshape(-1, 1), for the n of line 110 (r is a float)
AlphaOf(n, r) == Tab([k \in 1..Len(n) |-> FDiv(n[k], FAdd(n[k], r))], Len(n))

\* lines 110 and 112 of one pass
Alpha(p, X, r) == AlphaOf(SoftCounts(p, X), r)

NewMeans_ubm_anchor(p, X, r, orig) ==
    LET alpha == Alpha(p, X, r)
        X_tilde == XTilde(p, X)
    IN  Tab([k \in 1..NComp(p) |-> Tab([f \in 1..NFeat(p) |->
           FAdd(FMul(alpha[k], X_tilde[k][f]),
                FMul(FSub(One, alpha[k]), orig.means_[k][f]))], NFeat(p))], NComp(p))

\* alpha * X_tilde + (1 - alpha) * gmm.means_
BlendOf(alpha, X_tilde, means) ==
    Tab([k \in 1..Len(means) |-> Tab([f \in 1..Len(means[k]) |->
           FAdd(FMul(alpha[k], X_tilde[k][f]),
                FMul(FSub(One, alpha[k]), means[k][f]))], Len(means[k]))], Len(means))

\* the value lines 110 to 113 assign to gmm.means_   (orig: the ubm's
\* parameters, which the code does not read here)
NewMeans(p, X, r, orig) == BlendOf(Alpha(p, X, r), XTilde(p, X), p.means_)

\* ---------------------------------------------------------------- the heap
\* objects: address -> the array addresses of a GaussianMixture's attributes
\* arrays:  address -> the value of a numpy array
NextFree(S) == CHOOSE a \in 1..(Cardinality(S) + 1) :
                  a \notin S /\ \A b \in 1..(a - 1) : b \in S

Params(ob, ar, o) ==
    [weights_ |-> ar[ob[o].weights_],
     means_ |-> ar[ob[o].means_],
     covariances_ |-> ar[ob[o].covariances_]]

Refs(ob, o) == {ob[o].weights_, ob[o].means_, ob[o].covariances_}

deepcopy_alias(ob, ar, src) == [objects |-> ob, arrays |-> ar, ref |-> src]

deepcopy_unit_weights(ob, ar, src) ==
    LET o == NextFree(DOMAIN ob)
        a1 == NextFree(DOMAIN ar)
        a2 == NextFree(DOMAIN ar \cup {a1})
        a3 == NextFree(DOMAIN ar \cup {a1, a2})
    IN  [objects |-> ob @@ (o :> [weights_ |-> a1, means_ |-> a2, covariances_ |-> a3]),
         arrays |-> ar @@ (a1 :> [k \in 1..Len(ar[ob[src].weights_]) |-> One])
                      @@ (a2 :> ar[ob[src].means_])
                      @@ (a3 :> ar[ob[src].covariances_]),
         ref |-> o]

\* copy.deepcopy(ubm): a new object with new arrays of equal contents
deepcopy(ob, ar, src) ==
    LET o == NextFree(DOMAIN ob)
        a1 == NextFree(DOMAIN ar)
        a2 == NextFree(DOMAIN ar \cup {a1})
        a3 == NextFree(DOMAIN ar \cup {a1, a2})
    IN  [objects |-> ob @@ (o :> [weights_ |-> a1, means_ |-> a2, covariances_ |-> a3]),
         arrays |-> ar @@ (a1 :> ar[ob[src].weights_]) @@ (a2 :> ar[ob[src].means_])
                      @@ (a3 :> ar[ob[src].covariances_]),
         ref |-> o]

\* arrays no object refers to any more are collected
Collect(ob, ar) ==
    LET live == UNION {Refs(ob, o) : o \in DOMAIN ob}
    IN  [a \in live |-> ar[a]]

setattr_covariances(ob, ar, g, val) ==
    LET a == NextFree(DOMAIN ar)
        ob2 == [ob EXCEPT ![g].covariances_ = a]
    IN  [objects |-> ob2, arrays |-> Collect(ob2, ar @@ (a :> val))]

\* gmm.means_ = val: the attribute of object g is bound to a new array
setattr_means(ob, ar, g, val) ==
    LET a == NextFree(DOMAIN ar)
        ob2 == [ob EXCEPT ![g].means_ = a]
    IN  [objects |-> ob2, arrays |-> Collect(ob2, ar @@ (a :> val))]

LoopContinues_inclusive(i, n) == i <= n

\* for _ in range(max_iter): i passes done, is there another one
LoopContinues(i, n) == i < n

\* ------------------------------------------------------------------ inputs
Half == <<1, 2>>
Quarter == <<1, 4>>
ThreeQuarters == <<3, 4>>
Four == <<4, 1>>

\* fitted universal background models (K = 2, F = 2)
UBMs ==
    { [weights_ |-> <<Half, Half>>,
       means_ |-> << <<Zero, Zero>>, <<FInt(3), FInt(3)>> >>,
       covariances_ |-> << <<One, One>>, <<One, One>> >>],
      [weights_ |-> <<Quarter, ThreeQuarters>>,
       means_ |-> << <<Zero, Zero>>, <<One, One>> >>,
       covariances_ |-> << <<One, One>>, <<Four, Four>> >>] }

\* feature vectors and feature matrices
Points == { <<0, 0>>, <<1, 0>>, <<3, 3>> }
Samples == UNION { [1..t -> Points] : t \in 1..MaxT }

\* relevance factors (16 is the default)
RValues == {Zero, One, FInt(16)}

\* the extreme relevance factors: 0.0 and float('inf')
RLimits == {Zero, PInf}

\* ------------------------------------------------------------------- state
VARIABLES
    objects, arrays,   \* the heap
    ubm,               \* address of the universal background model
    ubm0,              \* history: the ubm's parameters when it was fitted
    pc,                \* position of the program
    gmm,               \* map_adapt: local gmm (0 before the deepcopy)
    X, max_iter, r,    \* map_adapt: arguments
    iters,             \* map_adapt: passes of the loop done
    prior,             \* history: gmm.means_ before the latest pass
    updates,           \* history: number of assignments to gmm.means_
    ret,               \* map_adapt: returned object (0: none yet)
    labeled_models,    \* the candidates: a list of [label, model]
    fn,                \* the evaluation that runs: "test_models" or "test_gmm"
    correct_label,     \* test_gmm: argument correct_label
    results,           \* the evaluation's list results
    outcome,           \* the evaluation: "running", "returned" or "raised"
    acc,               \* the value the evaluation returned (<<>>: none)
    last,              \* history: the test entry met last
    seen,              \* the evaluation: number of test entries met
    usable,            \* history: number of test entries met and not ignored
    paths_file,        \* get_data_paths: the lines of the file paths_file names
    prefix,            \* get_data_paths: argument prefix
    name_stop_symb,    \* get_data_paths: argument name_stop_symb
    fpos,              \* get_data_paths: lines of the file read so far
    line,              \* get_data_paths: local line
    ex,                \* get_data_paths: local ex, the group being read
    training_set,      \* get_data_paths: local training_set, the value returned
    fit_X,             \* GaussianMixture.fit: argument X
    n_components,      \* GaussianMixture.fit: the model's n_components
    fit_result,        \* GaussianMixture.fit: how the call ended
    calls              \* the map_adapt calls that share the ubm: caller -> frame

adaptVars == <<gmm, X, max_iter, r, iters, prior, updates, ret>>
evalVars == <<labeled_models, fn, correct_label, results, outcome, acc, last, seen, usable>>
parseVars == <<paths_file, prefix, name_stop_symb, fpos, line, ex, training_set>>
fitVars == <<fit_X, n_components, fit_result>>
otherVars == <<parseVars, fitVars, calls>>
vars == <<objects, arrays, ubm, ubm0, pc, adaptVars, evalVars, otherVars>>

NoEntry == [kind |-> "none", truth |-> "", X |-> <<>>, pred |-> ""]

\* the two map_adapt calls of the gender notebook (gmm_female, gmm_male)
Callers == {"female", "male"}

\* the frame of a map_adapt call that has not been made yet
NoFrame == [pc |-> "call", gmm |-> 0, X |-> <<>>, max_iter |-> 0, r |-> Zero, iters |-> 0,
            n |-> <<>>, X_tilde |-> <<>>, alpha |-> <<>>, ret |-> 0]

NoEx == [label |-> <<>>, paths |-> <<>>]

\* no file is being parsed
NoParse ==
    /\ paths_file = <<>>
    /\ prefix = <<>>
    /\ name_stop_symb = <<>>
    /\ fpos = 0
    /\ line = <<>>
    /\ ex = NoEx
    /\ training_set = <<>>

\* no model is being fitted
NoFit ==
    /\ fit_X = <<>>
    /\ n_components = 0
    /\ fit_result = [status |-> "none", n |-> <<>>]

NoParseNoFit == NoParse /\ NoFit

\* no model has been fitted yet
NoModels ==
    /\ objects = <<>>
    /\ arrays = <<>>
    /\ ubm = 0
    /\ ubm0 = [weights_ |-> <<>>, means_ |-> <<>>, covariances_ |-> <<>>]
    /\ prior = <<>>

\* no call of map_adapt and no evaluation has been made
NoCallYet ==
    /\ gmm = 0
    /\ X = <<>>
    /\ max_iter = 0
    /\ r = Zero
    /\ iters = 0
    /\ updates = 0
    /\ ret = 0
    /\ labeled_models = <<>>
    /\ correct_label = ""
    /\ results = <<>>
    /\ outcome = "running"
    /\ acc = <<>>
    /\ last = NoEntry
    /\ seen = 0
    /\ usable = 0
    /\ calls = [c \in Callers |-> NoFrame]

\* the ubm as GaussianMixture.fit left it, and nothing else
InitHeap ==
    /\ \E u \in UBMs :
         /\ objects = (1 :> [weights_ |-> 1, means_ |-> 2, covariances_ |-> 3])
         /\ arrays = (1 :> u.weights_) @@ (2 :> u.means_) @@ (3 :> u.covariances_)
         /\ ubm0 = u
         /\ prior = u.means_
    /\ ubm = 1
    /\ NoCallYet
    /\ NoParseNoFit

Init ==
    /\ InitHeap
    /\ pc = "call"
    /\ fn = ""

\* map_adapt(ubm, X, max_iter, r) is entered: gmm = copy.deepcopy(ubm)
MapAdaptCall ==
    /\ pc = "call"
    /\ \E x \in Samples, mi \in 0..MaxIter, rr \in RValues :
         /\ X' = x
         /\ max_iter' = mi
         /\ r' = rr
    /\ LET c == deepcopy(objects, arrays, ubm)
       IN  /\ objects' = c.objects
           /\ arrays' = c.arrays
           /\ gmm' = c.ref
           /\ prior' = c.arrays[c.objects[c.ref].means_]
    /\ iters' = 0
    /\ pc' = "loop"
    /\ UNCHANGED <<ubm, ubm0, updates, ret, evalVars, otherVars>>

\* one pass of the loop body
MapAdaptIter ==
    /\ pc = "loop"
    /\ LoopContinues(iters, max_iter)
    /\ \E h \in {setattr_means(objects, arrays, gmm,
                               NewMeans(Params(objects, arrays, gmm), X, r,
                                        Params(objects, arrays, ubm)))} :
           /\ objects' = h.objects
           /\ arrays' = h.arrays
    /\ prior' = Params(objects, arrays, gmm).means_
    /\ iters' = iters + 1
    /\ updates' = updates + 1
    /\ UNCHANGED <<ubm, ubm0, pc, gmm, X, max_iter, r, ret, evalVars, otherVars>>

\* return gmm
MapAdaptReturn ==
    /\ pc = "loop"
    /\ ~LoopContinues(iters, max_iter)
    /\ ret' = gmm
    /\ pc' = "returned"
    /\ UNCHANGED <<objects, arrays, ubm, ubm0, gmm, X, max_iter, r, iters, prior, updates, evalVars, otherVars>>

Next == MapAdaptCall \/ MapAdaptIter \/ MapAdaptReturn

Spec == Init /\ [][Next]_vars

\* map_adapt(ubm, X, max_iter, r) is entered with an extreme relevance factor
MapAdaptCallLimit ==
    /\ pc = "call"
    /\ \E x \in Samples, mi \in 0..MaxIter, rr \in RLimits :
         /\ X' = x
         /\ max_iter' = mi
         /\ r' = rr
    /\ LET c == deepcopy(objects, arrays, ubm)
       IN  /\ objects' = c.objects
           /\ arrays' = c.arrays
           /\ gmm' = c.ref
           /\ prior' = c.arrays[c.objects[c.ref].means_]
    /\ iters' = 0
    /\ pc' = "loop"
    /\ UNCHANGED <<ubm, ubm0, updates, ret, evalVars, otherVars>>

NextLimit == MapAdaptCallLimit \/ MapAdaptIter \/ MapAdaptReturn

SpecLimit == Init /\ [][NextLimit]_vars

\* ------------------------------------------------------- map_adapt: claims
Cur == Params(objects, arrays, gmm)
Ubm == Params(objects, arrays, ubm)

\* the model the latest pass started from
Before == [weights_ |-> Cur.weights_, means_ |-> prior, covariances_ |-> Cur.covariances_]

AllFinite(m) == \A k \in 1..Len(m) : \A f \in 1..Len(m[k]) : FIsFinite(m[k][f])

\* C1: map_adapt never mutates its input: in every state, before, between and
\* after the passes of the loop, the ubm's weights, means and variances are
\* those it had when the call was made, and the adapted model is another
\* object that shares no array with the ubm.
C1_UbmNotMutated ==
    /\ Ubm = ubm0
    /\ gmm # 0 => /\ gmm # ubm
                  /\ Refs(objects, gmm) \cap Refs(objects, ubm) = {}
    /\ ret # 0 => ret # ubm

C1_Witness ==
    /\ pc = "returned"
    /\ updates > 1
    /\ Params(objects, arrays, ret).means_ # ubm0.means_

\* C2: the adapted model keeps the ubm's weights and variances, its number of
\* components K and its feature dimension F; a pass changes the means only.
C2_WeightsVariancesFrozen ==
    gmm # 0 =>
        /\ Cur.weights_ = ubm0.weights_
        /\ Cur.covariances_ = ubm0.covariances_
        /\ Len(Cur.means_) = Len(ubm0.means_)
        /\ \A k \in 1..Len(Cur.means_) : Len(Cur.means_[k]) = Len(ubm0.means_[k])

C2_Witness ==
    /\ pc = "returned"
    /\ updates > 0
    /\ AllFinite(Cur.means_)
    /\ Cur.means_ # ubm0.means_

\* C3: a component whose soft count is 0 in a pass is left unchanged by that
\* pass, and its mean stays a finite number (no NaN is written).
C3_ZeroCountLeftUnchanged ==
    updates > 0 =>
        \A k \in 1..NComp(Before) :
            SoftCounts(Before, X)[k] = Zero =>
                /\ Cur.means_[k] = prior[k]
                /\ \A f \in 1..Len(Cur.means_[k]) : FIsFinite(Cur.means_[k][f])

\* C4: every pass computes the responsibilities and soft counts n_k under the
\* model the previous pass left, and the mean it writes is
\* alpha_k * data_mean_k + (1 - alpha_k) * prior_k with alpha_k = n_k / (n_k + r)
\* and prior_k the previous pass's mean: new_k * (n_k + r) = sum_t resp_tk x_t
\* + r * prior_k whenever alpha_k and data_mean_k are defined (n_k > 0), and
\* NaN, the float value of that expression, otherwise.
C4_BlendAgainstPreviousMean ==
    updates > 0 =>
        LET resp == predict_proba(Before, X)
        IN  \A k \in 1..NComp(Before) : \A f \in 1..NFeat(Before) :
              LET n == FSum([t \in 1..Len(X) |-> resp[t][k]], Len(X))
                  s == FSum([t \in 1..Len(X) |-> FMul(resp[t][k], FInt(X[t][f]))], Len(X))
              IN  IF FLt(Zero, n)
                  THEN FMul(Cur.means_[k][f], FAdd(n, r))
                         = FAdd(s, FMul(r, prior[k][f]))
                  ELSE FIsNaN(Cur.means_[k][f])

C4_Witness ==
    /\ updates > 1
    /\ FLt(Zero, r)
    /\ prior # ubm0.means_
    /\ AllFinite(Cur.means_)
    /\ Cur.means_ # prior

\* passes still to make, plus the steps around the loop: a measure of the
\* work map_adapt has left
Variant ==
    IF pc = "call" THEN MaxIter + 2
    ELSE IF pc = "loop" THEN (IF max_iter > iters THEN max_iter - iters ELSE 0) + 1
    ELSE 0

\* C5: map_adapt returns after exactly max_iter assignments to the means: it
\* never makes more, it does not return earlier, with max_iter = 0 the
\* returned model's parameters are the ubm's, and it terminates: every step
\* takes it strictly closer to the return (at most max_iter + 1 steps after
\* the copy), and in the loop either another pass or the return is possible.
C5_ExactlyMaxIterUpdates ==
    /\ [](updates <= max_iter)
    /\ [](pc = "returned" =>
            /\ updates = max_iter
            /\ max_iter = 0 => Params(objects, arrays, ret) = ubm0)
    /\ [](pc = "loop" => (iters < max_iter \/ iters = max_iter))
    /\ [][Variant' < Variant]_vars

C5_Witness ==
    /\ pc = "returned"
    /\ max_iter > 1
    /\ updates = max_iter

\* ------------------------------------------------ scoring and classification
DefaultR == 16

Labels == {"a", "b"}

\* the features of the training data of a label, and of a test entry
TrainSets == { << <<0, 0>> >>, << <<1, 0>>, <<3, 3>> >> }
TestSets == { << <<0, 0>> >>, << <<3, 3>> >>, << <<1, 0>>, <<3, 3>> >> }

\* GaussianMixture.score_samples for one row: logsumexp of the weighted log
\* probabilities
score_samples(p, x) ==
    IF HasBadMean(p) THEN NaN
    ELSE LET K == NComp(p)
             e == Tab([k \in 1..K |-> weighted_log_prob(p, x, k)], K)
             emax == IMax({e[k] : k \in 1..K})
             tot == ISum([k \in 1..K |-> ExpScaled(e[k], emax)], K)
         IN  FInt(emax + Log2Floor(tot, Pow2(MinExp)))

score_total(p, x) ==
    FSum(Tab([t \in 1..Len(x) |-> score_samples(p, x[t])], Len(x)), Len(x))

\* GaussianMixture.score: score_samples(X).mean()
score(p, x) ==
    FDiv(FSum(Tab([t \in 1..Len(x) |-> score_samples(p, x[t])], Len(x)), Len(x)),
         FInt(Len(x)))

RECURSIVE MapAdaptLoop(_, _, _, _, _, _)
MapAdaptLoop(p, x, n, rr, i, orig) ==
    IF LoopContinues(i, n)
    THEN MapAdaptLoop([p EXCEPT !.means_ = NewMeans(p, x, rr, orig)], x, n, rr, i + 1, orig)
    ELSE p

\* the parameters of the model map_adapt(ubm, X, max_iter, r) returns
map_adapt(u, x, n, rr) == MapAdaptLoop(u, x, n, rr, 0, u)

\* the scores of x under the candidates, in their order
Scores(ob, ar, cands, x) ==
    Tab([j \in 1..Len(cands) |-> score(Params(ob, ar, cands[j].model), x)], Len(cands))

RECURSIVE ArgMaxScan(_, _, _)
\* numpy's argmax loop: the maximum so far is replaced when !(a[i] <= max),
\* and the scan ends at a NaN
ArgMaxScan(a, i, best) ==
    IF i > Len(a) \/ FIsNaN(a[best]) THEN best
    ELSE IF ~FLe(a[i], a[best]) THEN ArgMaxScan(a, i + 1, i)
    ELSE ArgMaxScan(a, i + 1, best)

RECURSIVE ArgMaxScanLast(_, _, _)
ArgMaxScanLast(a, i, best) ==
    IF i > Len(a) \/ FIsNaN(a[best]) THEN best
    ELSE IF ~FLt(a[i], a[best]) THEN ArgMaxScanLast(a, i + 1, i)
    ELSE ArgMaxScanLast(a, i + 1, best)

argmax_last(a) == ArgMaxScanLast(a, 2, 1)

\* np.argmax(a) for a non-empty a (1-based)
argmax(a) == ArgMaxScan(a, 2, 1)

classify_default(sc, cands) ==
    IF Len(sc) = 0 THEN [raised |-> FALSE, label |-> "none"]
    ELSE [raised |-> FALSE, label |-> cands[argmax(sc)].label]

\* index = np.argmax(scores_only); label_pred = labeled_results[index].label
\* (np.argmax raises ValueError on an empty array)
classify(sc, cands) ==
    IF Len(sc) = 0 THEN [raised |-> TRUE, label |-> ""]
    ELSE [raised |-> FALSE, label |-> cands[argmax(sc)].label]

ProcessEntry_skip(ignored, load_ok, x, truth, ob, ar, cands) ==
    IF ignored \/ ~load_ok THEN [status |-> "skip", kind |-> IF ignored THEN "ignored" ELSE "load_failed", pred |-> ""]
    ELSE IF Len(cands) > 0 /\ Len(x) = 0
    THEN [status |-> "raise", kind |-> "score_failed", pred |-> ""]
    ELSE LET c == classify(Scores(ob, ar, cands, x), cands)
         IN  IF c.raised THEN [status |-> "raise", kind |-> "no_candidates", pred |-> ""]
             ELSE [status |-> "append", kind |-> "scored", pred |-> c.label]

\* the body of the loop over the test entries: an ignored file is skipped,
\* librosa.load raises for a file it cannot read, GaussianMixture.score
\* raises for a sample without rows, np.argmax raises without candidates;
\* nothing catches an exception
ProcessEntry(ignored, load_ok, x, truth, ob, ar, cands) ==
    IF ignored THEN [status |-> "skip", kind |-> "ignored", pred |-> ""]
    ELSE IF ~load_ok THEN [status |-> "raise", kind |-> "load_failed", pred |-> ""]
    ELSE IF Len(cands) > 0 /\ Len(x) = 0
    THEN [status |-> "raise", kind |-> "score_failed", pred |-> ""]
    ELSE LET c == classify(Scores(ob, ar, cands, x), cands)
         IN  IF c.raised THEN [status |-> "raise", kind |-> "no_candidates", pred |-> ""]
             ELSE [status |-> "append", kind |-> "scored", pred |-> c.label]

CountTrue(res) == Cardinality({i \in 1..Len(res) : res[i]})

test_models_return_floordiv(res) ==
    IF Len(res) = 0 THEN [outcome |-> "raised", acc |-> <<>>]
    ELSE [outcome |-> "returned", acc |-> FInt(CountTrue(res) \div Len(res))]

\* return sum(results) / len(results): Python raises ZeroDivisionError for 0 / 0
test_models_return(res) ==
    IF Len(res) = 0 THEN [outcome |-> "raised", acc |-> <<>>]
    ELSE [outcome |-> "returned", acc |-> Norm(CountTrue(res), Len(res))]

\* return np.sum(results) / results.shape[0]: a numpy scalar division, which
\* gives nan (and a RuntimeWarning) for 0 / 0
test_gmm_return(res) ==
    [outcome |-> "returned", acc |-> FDiv(FInt(CountTrue(res)), FInt(Len(res)))]

\* ------------------------------------------------- get_models and evaluation
InitEval ==
    /\ InitHeap
    /\ pc = "get_models"
    /\ fn = ""

\* get_models, one pass of its loop: the model of one label is adapted from
\* the ubm (with max_iter = TrainIter) and appended
GetModelsNext ==
    /\ pc = "get_models"
    /\ Len(labeled_models) < MaxModels
    /\ \E l \in Labels, x \in TrainSets :
         \E c \in {deepcopy(objects, arrays, ubm)} :
         \E h \in {setattr_means(c.objects, c.arrays, c.ref,
                                 map_adapt(Params(objects, arrays, ubm), x,
                                           TrainIter, FInt(DefaultR)).means_)} :
             /\ objects' = h.objects
             /\ arrays' = h.arrays
             /\ labeled_models' = Append(labeled_models, [label |-> l, model |-> c.ref])
    /\ UNCHANGED <<ubm, ubm0, pc, adaptVars, otherVars, fn, correct_label, results, outcome, acc,
                   last, seen, usable>>

\* get_models returns and test_models(testing_set, models) is called
CallTestModels ==
    /\ pc = "get_models"
    /\ pc' = "test"
    /\ fn' = "test_models"
    /\ UNCHANGED <<objects, arrays, ubm, ubm0, adaptVars, otherVars, labeled_models, correct_label,
                   results, outcome, acc, last, seen, usable>>

\* the models are built and test_gmm(gmms, labels, correct_label, directory) is called
CallTestGmm ==
    /\ pc = "get_models"
    /\ pc' = "test"
    /\ fn' = "test_gmm"
    /\ \E l \in Labels : correct_label' = l
    /\ UNCHANGED <<objects, arrays, ubm, ubm0, adaptVars, otherVars, labeled_models,
                   results, outcome, acc, last, seen, usable>>

EntryStep_sort_in_place(ignored, load_ok, x, truth) ==
    \E e \in {ProcessEntry(ignored, load_ok, x, truth, objects, arrays, labeled_models)} :
        /\ last' = [kind |-> e.kind, truth |-> truth, X |-> x, pred |-> e.pred]
        /\ seen' = seen + 1
        /\ usable' = IF e.kind = "ignored" THEN usable ELSE usable + 1
        /\ labeled_models' =
             IF e.status = "append"
             THEN LET best == argmax(Scores(objects, arrays, labeled_models, x))
                  IN  <<labeled_models[best]>>
                      \o SubSeq(labeled_models, 1, best - 1)
                      \o SubSeq(labeled_models, best + 1, Len(labeled_models))
             ELSE labeled_models
        /\ IF e.status = "raise"
           THEN /\ outcome' = "raised"
                /\ pc' = "done"
                /\ UNCHANGED results
           ELSE /\ results' = IF e.status = "append"
                              THEN Append(results, e.pred = truth) ELSE results
                /\ UNCHANGED <<outcome, pc>>
        /\ UNCHANGED <<objects, arrays, ubm, ubm0, adaptVars, otherVars, fn, correct_label, acc>>

\* what one pass of the evaluation loop does with its entry
EntryStep(ignored, load_ok, x, truth) ==
    \E e \in {ProcessEntry(ignored, load_ok, x, truth, objects, arrays, labeled_models)} :
        /\ last' = [kind |-> e.kind, truth |-> truth, X |-> x, pred |-> e.pred]
        /\ seen' = seen + 1
        /\ usable' = IF e.kind = "ignored" THEN usable ELSE usable + 1
        /\ IF e.status = "raise"
           THEN /\ outcome' = "raised"
                /\ pc' = "done"
                /\ UNCHANGED results
           ELSE /\ results' = IF e.status = "append"
                              THEN Append(results, e.pred = truth) ELSE results
                /\ UNCHANGED <<outcome, pc>>
        /\ UNCHANGED <<objects, arrays, ubm, ubm0, adaptVars, otherVars, labeled_models, fn,
                       correct_label, acc>>

\* test_models, one pass of the loop over test_examples
TestModelsEntry ==
    /\ pc = "test"
    /\ fn = "test_models"
    /\ seen < MaxTests
    /\ \E truth \in Labels, load_ok \in BOOLEAN :
         \E x \in IF load_ok THEN TestSets \cup {<<>>} ELSE {<<>>} :
            EntryStep(FALSE, load_ok, x, truth)

\* test_gmm, one pass of the loop over os.listdir(directory)
TestGmmEntry ==
    /\ pc = "test"
    /\ fn = "test_gmm"
    /\ seen < MaxTests
    /\ \E ignored \in BOOLEAN :
         \E load_ok \in IF ignored THEN {TRUE} ELSE BOOLEAN :
            \E x \in IF ~ignored /\ load_ok THEN TestSets ELSE {<<>>} :
               EntryStep(ignored, load_ok, x, correct_label)

\* the loop is over: the accuracy is computed and returned
TestReturn ==
    /\ pc = "test"
    /\ LET v == IF fn = "test_models" THEN test_models_return(results)
                ELSE test_gmm_return(results)
       IN  /\ outcome' = v.outcome
           /\ acc' = v.acc
    /\ pc' = "done"
    /\ UNCHANGED <<objects, arrays, ubm, ubm0, adaptVars, otherVars, labeled_models, fn,
                   correct_label, results, last, seen, usable>>

NextEval ==
    GetModelsNext \/ CallTestModels \/ CallTestGmm \/ TestModelsEntry \/ TestGmmEntry
    \/ TestReturn

SpecEval == InitEval /\ [][NextEval]_vars

\* -------------------------------------------------------- evaluation: claims
\* the scores the latest classification compared
LastScores == Scores(objects, arrays, labeled_models, last.X)

\* the score at index i is >= the score of every other candidate
Maximal(sc, i) == \A j \in 1..Len(sc) \ {i} : FLe(sc[j], sc[i])

\* i is the smallest such index
FirstMaximal(sc, i) == Maximal(sc, i) /\ \A h \in 1..(i - 1) : ~Maximal(sc, h)

\* C6: classification is a stable argmax: the predicted label is the label of
\* the candidate at the smallest index whose score is greater than or equal
\* to the score of every other candidate.
C6_StableArgmax ==
    last.kind = "scored" =>
        \E i \in 1..Len(LastScores) :
            /\ FirstMaximal(LastScores, i)
            /\ last.pred = labeled_models[i].label

\* When no score is NaN the prediction is the stable argmax.
StableArgmaxOfNumbers ==
    (last.kind = "scored" /\ \A j \in 1..Len(LastScores) : ~FIsNaN(LastScores[j])) =>
        \E i \in 1..Len(LastScores) :
            /\ FirstMaximal(LastScores, i)
            /\ last.pred = labeled_models[i].label

\* a tie between candidates of different labels has been decided
TieDecided ==
    /\ last.kind = "scored"
    /\ \E i, j \in 1..Len(LastScores) :
         /\ i < j
         /\ FirstMaximal(LastScores, i)
         /\ LastScores[i] = LastScores[j]
         /\ labeled_models[i].label # labeled_models[j].label

\* C7: with a non-empty test set and no candidate model the evaluation ends
\* in an error: it raises at the first usable entry, appends no result and
\* returns no accuracy.
C7_EmptyCandidatesRaise ==
    (labeled_models = <<>> /\ usable > 0) =>
        /\ outcome = "raised"
        /\ acc = <<>>
        /\ results = <<>>

C7_Witness ==
    /\ labeled_models = <<>>
    /\ last.kind = "no_candidates"
    /\ outcome = "raised"
    /\ pc = "done"

\* C8: an evaluation over an empty test set (no test example, or a directory
\* whose files are all ignored) ends in an error and returns no value.
C8_EmptyTestSetRaises ==
    (pc = "done" /\ usable = 0) =>
        /\ outcome = "raised"
        /\ acc = <<>>

\* C9: an evaluation that returns with a non-empty test set returns the
\* number of entries whose prediction equals their ground truth divided by
\* the number of entries, a value in [0, 1]; every usable entry appends
\* exactly one boolean, prediction = truth, at the end of results.
C9_AccuracyIsFractionCorrect ==
    /\ [](outcome # "raised" => Len(results) = usable)
    /\ []((outcome = "returned" /\ usable > 0) =>
            /\ Len(acc) = 2
            /\ acc[2] > 0
            /\ acc[1] * Len(results) = Cardinality({i \in 1..Len(results) : results[i]}) * acc[2]
            /\ FLe(Zero, acc) /\ FLe(acc, One))
    /\ [][results' # results =>
            /\ results' = Append(results, last'.pred = last'.truth)
            /\ usable' = usable + 1]_vars

C9_Witness ==
    /\ outcome = "returned"
    /\ Len(results) > 1
    /\ acc = Half
    /\ fn = "test_models"

\* C10: no skip or partial-failure semantics: when the feature extraction or
\* the scoring of a test entry fails, the evaluation ends in that error,
\* returns no accuracy, and processes no later entry.
C10_FailureAbortsEvaluation ==
    /\ [](last.kind \in {"load_failed", "score_failed"} =>
            /\ outcome = "raised"
            /\ acc = <<>>
            /\ pc = "done")
    /\ [][outcome = "raised" => UNCHANGED <<results, seen, usable, last, acc, outcome>>]_vars

C10_Witness ==
    /\ last.kind \in {"load_failed", "score_failed"}
    /\ Len(results) > 0
    /\ outcome = "raised"

\* the list s with e inserted so that it stands at position p
InsertAt(s, p, e) == SubSeq(s, 1, p - 1) \o <<e>> \o SubSeq(s, p, Len(s))

\* the label predicted when a copy of candidate j is inserted at position p.
\* Every candidate is scored on its own (Scores), so the scores of the longer
\* list are the scores sc of the list with the copy's score sc[j] at p.
LabelWithCopy(sc, j, p) ==
    classify(InsertAt(sc, p, sc[j]), InsertAt(labeled_models, p, labeled_models[j])).label

\* C11 (as claimed): duplicating one candidate does not change the
\* prediction: for the sample classified last, every candidate entry and
\* every position at which a copy of that entry is inserted, the label
\* predicted against the longer list is the label predicted against the
\* original list.  (Stated for the classifications whose scores are all
\* numbers, so that no NaN score decides it.)
C11_DuplicateAnywhereKeepsPrediction ==
    last.kind = "scored" =>
        \E sc \in {LastScores} :
            (\A i \in 1..Len(sc) : ~FIsNaN(sc[i])) =>
                \A j \in 1..Len(labeled_models) : \A p \in 1..(Len(labeled_models) + 1) :
                    LabelWithCopy(sc, j, p) = last.pred

\* C11 (amended): a copy of one candidate entry inserted anywhere after the
\* entry it copies (in particular appended to the list) does not change the
\* prediction.
C11_DuplicateAfterKeepsPrediction ==
    last.kind = "scored" =>
        \E sc \in {LastScores} :
            \A j \in 1..Len(labeled_models) : \A p \in (j + 1)..(Len(labeled_models) + 1) :
                LabelWithCopy(sc, j, p) = last.pred

C11_Witness ==
    /\ last.kind = "scored"
    /\ Len(labeled_models) = 2
    /\ labeled_models[1].label # labeled_models[2].label
    /\ ~FIsNaN(LastScores[1])
    /\ LastScores[1] = LastScores[2]

\* C12: scoring is pure: no step of test_models / test_gmm changes a
\* candidate model's weights, means or variances (nor any other array or
\* object) or the candidate list and its order, and scoring the entry just
\* classified once more, in the state the step left, gives the same
\* prediction; so a second evaluation of the same test set gives the same
\* per-entry predictions and the same accuracy.
C12_ScoringIsPure ==
    /\ [][pc = "test" => UNCHANGED <<objects, arrays, labeled_models>>]_vars
    /\ [](last.kind = "scored" =>
            classify(LastScores, labeled_models).label = last.pred)

C12_Witness ==
    /\ outcome = "returned"
    /\ usable > 1
    /\ Len(labeled_models) > 1
    /\ last.kind = "scored"
    /\ labeled_models[1].label # labeled_models[2].label

C15_RelevanceFactorLimits ==
    /\ (updates > 0 /\ r = Zero) =>
          \A k \in 1..NComp(Before) :
              FLt(Zero, SoftCounts(Before, X)[k]) =>
                  /\ Alpha(Before, X, r)[k] = One
                  /\ Cur.means_[k] = XTilde(Before, X)[k]
    /\ (gmm # 0 /\ r = PInf) =>
          /\ updates > 0 => \A k \in 1..NComp(Before) : Alpha(Before, X, r)[k] = Zero
          /\ Cur.means_ = ubm0.means_

\* v lies between a and b (inclusive)
Between(v, a, b) == (FLe(a, v) /\ FLe(v, b)) \/ (FLe(b, v) /\ FLe(v, a))

\* coordinate f of the ubm mean of component k and of every sample of X
CoordValues(k, f) == {ubm0.means_[k][f]} \cup {FInt(X[t][f]) : t \in 1..Len(X)}

\* C19: every mean update is a convex combination: for r > 0 and n_k > 0
\* the coefficient alpha_k lies strictly between 0 and 1, each coordinate of
\* the mean a pass writes for component k lies between the previous mean and
\* the data-only mean of X for that component (inclusive), and it lies
\* within the range spanned by the ubm mean and the samples of X.
C19_ConvexCombination ==
    (updates > 0 /\ FLt(Zero, r)) =>
        \A k \in 1..NComp(Before) :
            FLt(Zero, SoftCounts(Before, X)[k]) =>
                /\ FLt(Zero, Alpha(Before, X, r)[k])
                /\ FLt(Alpha(Before, X, r)[k], One)
                /\ \A f \in 1..NFeat(Before) :
                      /\ Between(Cur.means_[k][f], prior[k][f], XTilde(Before, X)[k][f])
                      /\ \E lo \in CoordValues(k, f) : FLe(lo, Cur.means_[k][f])
                      /\ \E hi \in CoordValues(k, f) : FLe(Cur.means_[k][f], hi)

C19_Witness ==
    /\ updates > 1
    /\ FLt(Zero, r)
    /\ \E k \in 1..NComp(Before) : \E f \in 1..NFeat(Before) :
          /\ FLt(Zero, SoftCounts(Before, X)[k])
          /\ Cur.means_[k][f] # prior[k][f]
          /\ Cur.means_[k][f] # XTilde(Before, X)[k][f]
          /\ prior[k][f] # ubm0.means_[k][f]

\* ------------------------------------------------ evaluation: further claims
\* the sum over the rows of x of the per-row log-likelihood under p
TotalLogLikelihood(p, x) ==
    FSum(Tab([t \in 1..Len(x) |-> score_samples(p, x[t])], Len(x)), Len(x))

\* C16 (as claimed): the score the classifier compares is the total
\* log-likelihood of the sample: the sum over its T feature vectors of the
\* per-vector log-likelihood under the model.
C16_ScoreIsTotalLogLikelihood ==
    last.kind = "scored" =>
        \A j \in 1..Len(labeled_models) :
            LastScores[j]
              = TotalLogLikelihood(Params(objects, arrays, labeled_models[j].model), last.X)

\* C16 (amended): the score the classifier compares is the per-vector
\* average log-likelihood: T times the score is the sum over the T feature
\* vectors of the per-vector log-likelihood.
C16_ScoreIsMeanLogLikelihood ==
    last.kind = "scored" =>
        \E sc \in {LastScores} :
            \A j \in 1..Len(labeled_models) :
                FMul(sc[j], FInt(Len(last.X)))
                  = TotalLogLikelihood(Params(objects, arrays, labeled_models[j].model), last.X)

C16_Witness ==
    /\ last.kind = "scored"
    /\ Len(last.X) > 1
    /\ \E j \in 1..Len(labeled_models) :
          /\ FIsFinite(LastScores[j])
          /\ LastScores[j]
               # TotalLogLikelihood(Params(objects, arrays, labeled_models[j].model), last.X)

\* ------------------------------------------------------------ get_data_paths
\* A string is a sequence of characters; a file is the sequence of its lines,
\* each with its newline.
MaxLines == 4     \* largest number of lines of a paths file

Whitespace == {" ", "\n"}

RECURSIVE rstrip(_)
\* str.rstrip(): the string without its trailing whitespace
rstrip(str) ==
    IF str = <<>> THEN str
    ELSE IF str[Len(str)] \in Whitespace THEN rstrip(SubSeq(str, 1, Len(str) - 1))
    ELSE str

\* file.readline() after pos lines have been read: '' at the end of the file
readline(file, pos) == IF pos < Len(file) THEN file[pos + 1] ELSE <<>>

RECURSIVE FindFrom(_, _, _)
\* the first index >= i at which sep occurs in str, 0 when there is none
FindFrom(str, sep, i) ==
    IF i + Len(sep) - 1 > Len(str) THEN 0
    ELSE IF SubSeq(str, i, i + Len(sep) - 1) = sep THEN i
    ELSE FindFrom(str, sep, i + 1)

\* str.split(sep)[0] for a non-empty sep
split_first(str, sep) ==
    LET i == FindFrom(str, sep, 1)
    IN  IF i = 0 THEN str ELSE SubSeq(str, 1, i - 1)

\* os.path.join(a, b) (posixpath): an absolute b discards a
path_join(a, b) ==
    IF b # <<>> /\ b[1] = "/" THEN b
    ELSE IF a = <<>> \/ a[Len(a)] = "/" THEN a \o b
    ELSE a \o <<"/">> \o b

\* the lines a paths file is made of
ManifestLines ==
    { <<"a", "-", "1", "\n">>, <<"b", "\n">>, <<"\n">>, <<" ", "\n">>,
      <<"/", "a", "-", " ", "\n">> }

Manifests == UNION { [1..n -> ManifestLines] : n \in 0..MaxLines }
Prefixes == { <<>>, <<"d">> }
StopSymbs == { <<"-">>, <<"/">> }

\* get_data_paths(paths_file, prefix, name_stop_symb) is entered
InitParse ==
    /\ NoModels
    /\ NoCallYet
    /\ NoFit
    /\ paths_file \in Manifests
    /\ prefix \in Prefixes
    /\ name_stop_symb \in StopSymbs
    /\ fpos = 0
    /\ line = <<>>
    /\ ex = NoEx
    /\ training_set = <<>>
    /\ pc = "outer"
    /\ fn = ""

GetDataPathsOuter_skip_blank ==
    /\ pc = "outer"
    /\ \E l \in {rstrip(readline(paths_file, fpos))} :
         /\ line' = l
         /\ IF l # <<>>
            THEN /\ ex' = [label |-> split_first(l, name_stop_symb),
                           paths |-> <<path_join(prefix, l)>>]
                 /\ pc' = "inner"
            ELSE /\ pc' = IF fpos < Len(paths_file) THEN "outer" ELSE "return"
                 /\ UNCHANGED ex
    /\ fpos' = IF fpos < Len(paths_file) THEN fpos + 1 ELSE fpos
    /\ UNCHANGED <<objects, arrays, ubm, ubm0, adaptVars, evalVars, fitVars, calls,
                   paths_file, prefix, name_stop_symb, training_set>>

\* the test of the outer loop, line := file.readline().rstrip(), and, when
\* the line is not empty, the start of a group: its label and first path
GetDataPathsOuter ==
    /\ pc = "outer"
    /\ \E l \in {rstrip(readline(paths_file, fpos))} :
         /\ line' = l
         /\ IF l # <<>>
            THEN /\ ex' = [label |-> split_first(l, name_stop_symb),
                           paths |-> <<path_join(prefix, l)>>]
                 /\ pc' = "inner"
            ELSE /\ pc' = "return"
                 /\ UNCHANGED ex
    /\ fpos' = IF fpos < Len(paths_file) THEN fpos + 1 ELSE fpos
    /\ UNCHANGED <<objects, arrays, ubm, ubm0, adaptVars, evalVars, fitVars, calls,
                   paths_file, prefix, name_stop_symb, training_set>>

\* the test of the inner loop, line := file.readline().rstrip(): a line that
\* is not empty is appended to the group, an empty one ends the inner loop
\* and the group is appended to training_set
GetDataPathsInner ==
    /\ pc = "inner"
    /\ \E l \in {rstrip(readline(paths_file, fpos))} :
         /\ line' = l
         /\ IF l # <<>>
            THEN /\ ex' = [ex EXCEPT !.paths = Append(@, path_join(prefix, l))]
                 /\ UNCHANGED <<training_set, pc>>
            ELSE /\ training_set' = Append(training_set, ex)
                 /\ pc' = "outer"
                 /\ UNCHANGED ex
    /\ fpos' = IF fpos < Len(paths_file) THEN fpos + 1 ELSE fpos
    /\ UNCHANGED <<objects, arrays, ubm, ubm0, adaptVars, evalVars, fitVars, calls,
                   paths_file, prefix, name_stop_symb>>

\* return training_set
GetDataPathsReturn ==
    /\ pc = "return"
    /\ pc' = "parsed"
    /\ UNCHANGED <<objects, arrays, ubm, ubm0, adaptVars, evalVars, otherVars>>

NextParse == GetDataPathsOuter \/ GetDataPathsInner \/ GetDataPathsReturn

SpecParse == InitParse /\ [][NextParse]_vars

\* ---------------------------------------------------- get_data_paths: claims
Blank(raw) == rstrip(raw) = <<>>

\* the last line of the run of non-blank lines that starts at line i
RunEnd(file, i) ==
    CHOOSE j \in i..Len(file) :
        /\ \A k \in i..j : ~Blank(file[k])
        /\ j = Len(file) \/ Blank(file[j + 1])

\* the entry of the run of lines i..j
RunEntry(file, i, j) ==
    [label |-> split_first(rstrip(file[i]), name_stop_symb),
     paths |-> [k \in 1..(j - i + 1) |-> path_join(prefix, rstrip(file[i + k - 1]))]]

RECURSIVE GroupsFrom(_, _)
\* one entry per maximal run of non-blank lines from line i on, in file order
GroupsFrom(file, i) ==
    IF i > Len(file) THEN <<>>
    ELSE IF Blank(file[i]) THEN GroupsFrom(file, i + 1)
    ELSE <<RunEntry(file, i, RunEnd(file, i))>> \o GroupsFrom(file, RunEnd(file, i) + 1)

\* lab is the text of str before the first sep (all of str when it has none)
IsTextBefore(lab, str, sep) ==
    /\ Len(lab) <= Len(str)
    /\ lab = SubSeq(str, 1, Len(lab))
    /\ \A i \in 1..Len(lab) :
          i + Len(sep) - 1 <= Len(str) => SubSeq(str, i, i + Len(sep) - 1) # sep
    /\ \/ lab = str /\ FindFrom(str, sep, 1) = 0
       \/ /\ Len(lab) + Len(sep) <= Len(str)
          /\ SubSeq(str, Len(lab) + 1, Len(lab) + Len(sep)) = sep

\* the first lines of the runs of non-blank lines, in file order
RunStarts(file) ==
    {i \in 1..Len(file) : ~Blank(file[i]) /\ (i = 1 \/ Blank(file[i - 1]))}

\* C18: get_data_paths treats blank lines as separators: for any file the
\* result has one entry per maximal run of non-blank lines, in file order,
\* each entry holds the lines of its run in order, each joined with prefix,
\* its label is the text of the run's first line before the first
\* name_stop_symb, and every non-blank line is in exactly one entry.
C18_BlankLinesSeparateGroups ==
    pc = "parsed" =>
        /\ training_set = GroupsFrom(paths_file, 1)
        /\ Len(training_set) = Cardinality(RunStarts(paths_file))
        /\ \A g \in 1..Len(training_set) :
              \E i \in RunStarts(paths_file) :
                  /\ Cardinality({h \in RunStarts(paths_file) : h <= i}) = g
                  /\ IsTextBefore(training_set[g].label, rstrip(paths_file[i]), name_stop_symb)

\* the first blank line met where a group should start: a blank first line
\* or a blank line right after a blank line (one past the end when none)
StopLine(file) ==
    LET S == {i \in 1..Len(file) : Blank(file[i]) /\ (i = 1 \/ Blank(file[i - 1]))}
    IN  IF S = {} THEN Len(file) + 1 ELSE CHOOSE i \in S : \A h \in S : i <= h

\* the work get_data_paths has left: lines to read and loops to leave
ParseVariant ==
    4 * (Len(paths_file) - fpos)
    + (IF pc = "inner" THEN 3 ELSE IF pc = "outer" THEN 2 ELSE IF pc = "return" THEN 1 ELSE 0)

MaxFitRows == 3       \* largest number of rows of the features fit is given
MaxComponents == 3    \* largest n_components

\* the feature matrices fit is given: 0 to MaxFitRows rows, rows may repeat
FitSamples == UNION { [1..t -> Points] : t \in 0..MaxFitRows }

\* the number of distinct rows of x
Distinct(x) == Cardinality({x[t] : t \in 1..Len(x)})

\* what sklearn's fit checks before it runs EM: at least 2 rows, and at
\* least n_components rows; it does not look at how many rows are distinct
fit_raises(x, K) == Len(x) < 2 \/ Len(x) < K

\* the soft counts resp.sum(axis=0) of an assignment of the rows to the
\* components
AssignedCounts(x, K, lab) ==
    Tab([k \in 1..K |-> Cardinality({t \in 1..Len(x) : lab[t] = k})], K)

\* gmm = GaussianMixture(n_components=K, ...) and gmm.fit(features) is called
InitFit ==
    /\ NoModels
    /\ NoCallYet
    /\ NoParse
    /\ NoFit
    /\ pc = "fit"
    /\ fn = ""

\* fit raises ValueError: too few rows
FitRaise ==
    /\ pc = "fit"
    /\ \E x \in FitSamples, K \in 1..MaxComponents :
         /\ fit_raises(x, K)
         /\ fit_X' = x
         /\ n_components' = K
         /\ fit_result' = [status |-> "raised", n |-> <<>>]
    /\ pc' = "fitted"
    /\ UNCHANGED <<objects, arrays, ubm, ubm0, adaptVars, evalVars, parseVars, calls>>

\* fit returns a model: EM starts from an assignment of the rows to the
\* components (k-means under a random seed, n_init times: any assignment)
\* and nothing in it raises for a component that holds no row or for
\* components that hold equal rows (reg_covar keeps the variances positive)
FitReturn ==
    /\ pc = "fit"
    /\ \E x \in FitSamples, K \in 1..MaxComponents :
         /\ ~fit_raises(x, K)
         /\ fit_X' = x
         /\ n_components' = K
         /\ \E lab \in [1..Len(x) -> 1..K] :
              fit_result' = [status |-> "returned", n |-> AssignedCounts(x, K, lab)]
    /\ pc' = "fitted"
    /\ UNCHANGED <<objects, arrays, ubm, ubm0, adaptVars, evalVars, parseVars, calls>>

NextFit == FitRaise \/ FitReturn

SpecFit == InitFit /\ [][NextFit]_vars

\* C17: fitting a model with K greater than the number of distinct samples
\* in X fails with an error and never returns a model that has an empty
\* component, also when the number of samples T is at least K but the
\* samples contain duplicates.
C17_DegenerateFitRaises ==
    (pc = "fitted" /\ n_components > Distinct(fit_X)) =>
        /\ fit_result.status = "raised"
        /\ \A k \in 1..Len(fit_result.n) : fit_result.n[k] > 0

\* ---------------------------------- map_adapt calls that share one ubm
\* Each caller runs map_adapt(ubm, X, max_iter, r) on the same ubm; the calls
\* advance one statement at a time, in any order.  The order in which one
\* call runs to its return before the next is made is that of the two calls
\* of the gender notebook and of the loop of get_models.
Frame(c) == calls[c]

SetFrame(c, f) == [calls EXCEPT ![c] = f]

\* gmm = copy.deepcopy(ubm)
ParCall(c) ==
    /\ Frame(c).pc = "call"
    /\ \E x \in TrainSets, mi \in 0..MaxIter :
       \E h \in {deepcopy(objects, arrays, ubm)} :
         /\ objects' = h.objects
         /\ arrays' = h.arrays
         /\ calls' = SetFrame(c, [Frame(c) EXCEPT !.pc = "loop", !.gmm = h.ref, !.X = x,
                                                  !.max_iter = mi, !.r = FInt(DefaultR)])
    /\ UNCHANGED <<ubm, ubm0, pc, adaptVars, evalVars, parseVars, fitVars>>

\* for _ in range(max_iter): n = np.sum(gmm.predict_proba(X), axis=0).reshape(-1, 1)
ParCount(c) ==
    /\ Frame(c).pc = "loop"
    /\ LoopContinues(Frame(c).iters, Frame(c).max_iter)
    /\ \E n \in {SoftCounts(Params(objects, arrays, Frame(c).gmm), Frame(c).X)} :
         calls' = SetFrame(c, [Frame(c) EXCEPT !.pc = "xtilde", !.n = n])
    /\ UNCHANGED <<objects, arrays, ubm, ubm0, pc, adaptVars, evalVars, parseVars, fitVars>>

\* X_tilde = (1 / n) * gmm.predict_proba(X).T.dot(X)
ParXTilde(c) ==
    /\ Frame(c).pc = "xtilde"
    /\ \E v \in {XTildeOf(Frame(c).n, Params(objects, arrays, Frame(c).gmm), Frame(c).X)} :
         calls' = SetFrame(c, [Frame(c) EXCEPT !.pc = "alpha", !.X_tilde = v])
    /\ UNCHANGED <<objects, arrays, ubm, ubm0, pc, adaptVars, evalVars, parseVars, fitVars>>

\* alpha = (n / (n + r)).reshape(-1, 1)
ParAlpha(c) ==
    /\ Frame(c).pc = "alpha"
    /\ calls' = SetFrame(c, [Frame(c) EXCEPT !.pc = "assign",
                                             !.alpha = AlphaOf(Frame(c).n, Frame(c).r)])
    /\ UNCHANGED <<objects, arrays, ubm, ubm0, pc, adaptVars, evalVars, parseVars, fitVars>>

\* gmm.means_ = alpha * X_tilde + (1 - alpha) * gmm.means_
ParAssign(c) ==
    /\ Frame(c).pc = "assign"
    /\ \E h \in {setattr_means(objects, arrays, Frame(c).gmm,
                               BlendOf(Frame(c).alpha, Frame(c).X_tilde,
                                       Params(objects, arrays, Frame(c).gmm).means_))} :
         /\ objects' = h.objects
         /\ arrays' = h.arrays
    /\ calls' = SetFrame(c, [Frame(c) EXCEPT !.pc = "loop", !.iters = @ + 1])
    /\ UNCHANGED <<ubm, ubm0, pc, adaptVars, evalVars, parseVars, fitVars>>

\* return gmm
ParReturn(c) ==
    /\ Frame(c).pc = "loop"
    /\ ~LoopContinues(Frame(c).iters, Frame(c).max_iter)
    /\ calls' = SetFrame(c, [Frame(c) EXCEPT !.pc = "done", !.ret = Frame(c).gmm])
    /\ UNCHANGED <<objects, arrays, ubm, ubm0, pc, adaptVars, evalVars, parseVars, fitVars>>

InitPar ==
    /\ InitHeap
    /\ pc = "par"
    /\ fn = ""

NextPar ==
    \E c \in Callers :
        ParCall(c) \/ ParCount(c) \/ ParXTilde(c) \/ ParAlpha(c) \/ ParAssign(c) \/ ParReturn(c)

SpecPar == InitPar /\ [][NextPar]_vars

\* the model of caller c
FrameModel(c) == Params(objects, arrays, Frame(c).gmm)

\* C13: adaptations that share one ubm are independent under any
\* interleaving: the ubm is never modified; the model of a call is an object
\* of its own that shares no array with the ubm or with another call's
\* model; a call's model starts as the ubm's parameters and is changed by
\* that call's own assignment only, never by a step of another call; the
\* means a call assigns are those one pass over its own model gives (it
\* reads no mean another call wrote, and its soft counts are not stale);
\* and each call returns exactly the model map_adapt(ubm, X, max_iter, r)
\* returns when it runs alone.
C13_InterleavedAdaptationsIndependent ==
    /\ [](/\ Params(objects, arrays, ubm) = ubm0
          /\ \A c \in Callers :
                Frame(c).gmm # 0 =>
                    /\ Frame(c).gmm # ubm
                    /\ Refs(objects, Frame(c).gmm) \cap Refs(objects, ubm) = {}
                    /\ \A d \in Callers \ {c} :
                          Frame(d).gmm # 0 =>
                              /\ Frame(d).gmm # Frame(c).gmm
                              /\ Refs(objects, Frame(c).gmm)
                                   \cap Refs(objects, Frame(d).gmm) = {})
    /\ [][\A c \in Callers :
            /\ (Frame(c).pc = "call" /\ calls'[c].pc = "loop") =>
                  Params(objects', arrays', calls'[c].gmm) = ubm0
            /\ (Frame(c).gmm # 0 /\ ~(Frame(c).pc = "assign" /\ calls'[c].pc = "loop")) =>
                  Params(objects', arrays', calls'[c].gmm) = FrameModel(c)
            /\ (Frame(c).pc = "assign" /\ calls'[c].pc = "loop") =>
                  Params(objects', arrays', calls'[c].gmm)
                    = [FrameModel(c) EXCEPT
                         !.means_ = NewMeans(FrameModel(c), Frame(c).X, Frame(c).r, ubm0)]
            /\ (Frame(c).pc = "loop" /\ calls'[c].pc = "done") =>
                  /\ calls'[c].ret = Frame(c).gmm
                  /\ Params(objects', arrays', calls'[c].ret)
                       = map_adapt(ubm0, Frame(c).X, Frame(c).max_iter, Frame(c).r)]_vars

C13_Witness ==
    /\ Frame("female").pc = "assign"
    /\ Frame("male").pc = "xtilde"
    /\ Frame("female").iters > 0
    /\ Frame("male").iters > 0
    /\ Frame("female").X # Frame("male").X
    /\ FrameModel("female").means_ # FrameModel("male").means_
    /\ AllFinite(FrameModel("female").means_)

====
